---- MODULE Spec2Model ----
(***************************************************************************)
(* Model of the network diagnostics of the acovo crate (src/src/net.rs):   *)
(* the route-table parsers, RouteTable::Parse, RouteTable::FindRoute and   *)
(* ping / ping_internal of the Linux and macOS backends.                   *)
(* After them: the line files of src/src/fs.rs, Request::validate of       *)
(* src/src/proto.rs and the retry macros of src/src/syncall.rs, each with  *)
(* a specification of its own over its own variables.                      *)
(*                                                                         *)
(* Rust strings are TLA+ strings; they are taken apart character by        *)
(* character with Len and SubSeq, so split, contains, starts_with, find    *)
(* and parse::<f32> are computed, not assumed.                             *)
(***************************************************************************)
EXTENDS Integers, Sequences, FiniteSets, TLC

VARIABLES
    os,        \* "linux" | "macos": the backend compiled in (cfg target_os)
    stack,     \* call stack of ping_internal frames, innermost last
    ret,       \* what the outermost call gave its caller (kind "none" while running)
    nPing,     \* ping commands issued by the call
    nRoute,    \* route-table commands issued by the call
    call,      \* the outermost call: [host, diag]
    hostOut,   \* output of the host probe's ping command
    routeOut,  \* output of the route-table command run by the diagnosis
    routeTable,\* route_table of the diagnosis, once get_route_table gave it
    gwOut,     \* output of the gateway probe's ping command
    gwRet,     \* what the nested gateway probe returned to the diagnosis
    rtText,    \* parser specification: the captured route-command text
    rtTable,   \* parser specification: the table built from rtText
    rtPc,      \* parser specification: "start" | "done" ("built" once a table is)
    rtInfo,    \* table specification: the GatewayInfo Parse returned, once called
    rtFound,   \* table specification: the ip given to FindRoute and what it returned
    clsBuild,  \* classifier specification: "debug" | "release" (overflow checks or not)
    clsUnit,   \* classifier specification: the records the table repeats
    clsLen,    \* classifier specification: the number of records of the table
    clsPos,    \* classifier specification: records the loop of Parse has handled
    clsInfo,   \* classifier specification: gatewayInfo of the running Parse
    clsPc,     \* classifier specification: "loop" | "done" | "panic"
    fsFile,    \* file specifications: the file at the path, <<>> while it does not exist
    fsLog,     \* file specifications: the write_lines calls made, [lines, create] each
    fsRead,    \* file specifications: what read_lines gave, once called
    fsPrev,    \* file specifications: the file before the last batched call
    fsCall,    \* file specifications: the last batched call and its arguments
    fsRet,     \* file specifications: what the last batched call returned
    fsBatches, \* file specifications: the batches the callback was called with
    reqVal,    \* envelope specification: the Request validate is called on
    reqRet,    \* envelope specification: what validate returned, once called
    acKind,    \* borrow specification: per thread, the macro it runs ("mut" | "imt")
    acPc,      \* borrow specification: per thread, "loop" | "method" | "done"
    acRetry,   \* borrow specification: per thread, the macro's retry counter
    acTries,   \* borrow specification: per thread, borrow attempts made
    acCalls,   \* borrow specification: per thread, times the target method was entered
    acR,       \* borrow specification: per thread, the result variable $r
    acBorrow,  \* borrow specification: the AtomicRefCell, [writer, readers]
    syPc,      \* syncall specifications: where the macro is
    syR,       \* syncall specifications: the result variable $r
    syElapsed, \* syncall specifications: tm_start.elapsed().as_secs()
    syTimeout, \* syncall specifications: $t
    syInterval,\* syncall specifications: $v
    syTries,   \* syncall specifications: attempts of the action started
    syFlag,    \* syncall specifications: the exit flag behind the Mutex $s
    sySignal,  \* syncall specifications: "none", or when the flag was raised
    sySince    \* syncall specifications: attempts started since it was raised

vars == <<os, stack, ret, nPing, nRoute, call, hostOut, routeOut, routeTable, gwOut, gwRet,
          rtText, rtTable, rtPc, rtInfo, rtFound,
          clsBuild, clsUnit, clsLen, clsPos, clsInfo, clsPc,
          fsFile, fsLog, fsRead, fsPrev, fsCall, fsRet, fsBatches,
          reqVal, reqRet,
          acKind, acPc, acRetry, acTries, acCalls, acR, acBorrow,
          syPc, syR, syElapsed, syTimeout, syInterval, syTries, syFlag, sySignal, sySince>>

pingVars == <<os, stack, ret, nPing, nRoute, call, hostOut, routeOut, routeTable, gwOut, gwRet>>
clsVars == <<clsBuild, clsUnit, clsLen, clsPos, clsInfo, clsPc>>
routeVars == <<rtText, rtTable, rtPc, rtInfo, rtFound, clsVars>>
fsVars == <<fsFile, fsLog, fsRead, fsPrev, fsCall, fsRet, fsBatches>>
protoVars == <<reqVal, reqRet>>
atomicVars == <<acKind, acPc, acRetry, acTries, acCalls, acR, acBorrow>>
syncallVars == <<syPc, syR, syElapsed, syTimeout, syInterval, syTries, syFlag, sySignal, sySince>>
libVars == <<fsVars, protoVars, atomicVars, syncallVars>>

(***************************************************************************)
(* Bounds of the model.                                                    *)
(***************************************************************************)
\* lines of a route-command output in the ping specification
MaxLines == 2
\* tokens of a generated line in the parser specification
MaxTokens == 5

(***************************************************************************)
(* str primitives used by net.rs.                                          *)
(***************************************************************************)
Char(s, i) == SubSeq(s, i, i)

\* str::contains
Contains(s, sub) ==
    \E i \in 1..(Len(s) - Len(sub) + 1) : SubSeq(s, i, i + Len(sub) - 1) = sub

\* str::starts_with
StartsWith(s, p) == Len(s) >= Len(p) /\ SubSeq(s, 1, Len(p)) = p

\* str::find: 1-based position of the first occurrence, 0 for None
Find(s, sub) ==
    IF Contains(s, sub)
    THEN CHOOSE i \in 1..(Len(s) - Len(sub) + 1) :
            /\ SubSeq(s, i, i + Len(sub) - 1) = sub
            /\ \A j \in 1..(i - 1) : SubSeq(s, j, j + Len(sub) - 1) # sub
    ELSE 0

\* str::split on a one-character separator: n separators give n+1 pieces,
\* empty pieces included ("" gives one empty piece)
RECURSIVE Split(_, _)
Split(s, sep) ==
    LET at == Find(s, sep)
    IN  IF at = 0 THEN <<s>>
        ELSE <<SubSeq(s, 1, at - 1)>> \o Split(SubSeq(s, at + 1, Len(s)), sep)

\* str::split_whitespace: maximal runs of non-whitespace, no empty piece
IsWhitespace(c) == c \in {" ", "\t", "\n", "\r"}

RECURSIVE SplitWhitespace(_)
SplitWhitespace(s) ==
    LET inWord == {i \in 1..Len(s) : ~IsWhitespace(Char(s, i))}
        first  == CHOOSE i \in inWord : \A j \in inWord : i <= j
        ends   == {j \in first..Len(s) : j = Len(s) \/ IsWhitespace(Char(s, j + 1))}
        last   == CHOOSE j \in ends : \A k \in ends : j <= k
    IN  IF inWord = {} THEN <<>>
        ELSE <<SubSeq(s, first, last)>> \o SplitWhitespace(SubSeq(s, last + 1, Len(s)))

\* items.get(pos).unwrap_or(&"") with a 0-based pos
GetOr(items, pos) == IF pos >= 0 /\ pos < Len(items) THEN items[pos + 1] ELSE ""

(***************************************************************************)
(* f32 and str::parse::<f32>.  A value is its class, its sign and its      *)
(* magnitude in thousandths (digits beyond the third are dropped; f32      *)
(* rounding is not modelled).  Exponents are not parsed: no input of the   *)
(* model carries one.                                                      *)
(***************************************************************************)
F32(cls, neg, milli) == [cls |-> cls, neg |-> neg, milli |-> milli]

\* PingResult::default().duration
F32Zero == F32("num", FALSE, 0)

\* f >= 0.0 as IEEE compares: false for NaN, true for -0.0
F32NonNegative(f) ==
    /\ f.cls # "nan"
    /\ (~f.neg \/ (f.cls = "num" /\ f.milli = 0))

DigitChars == {"0", "1", "2", "3", "4", "5", "6", "7", "8", "9"}

DigitVal(c) ==
    CASE c = "0" -> 0 [] c = "1" -> 1 [] c = "2" -> 2 [] c = "3" -> 3
      [] c = "4" -> 4 [] c = "5" -> 5 [] c = "6" -> 6 [] c = "7" -> 7
      [] c = "8" -> 8 [] c = "9" -> 9

IsDigits(s) == \A i \in 1..Len(s) : Char(s, i) \in DigitChars

RECURSIVE DigitsValue(_, _)
DigitsValue(s, acc) ==
    IF s = "" THEN acc ELSE DigitsValue(Tail(s), 10 * acc + DigitVal(Head(s)))

\* thousandths of a fraction digit string
FracMilli(fp) == DigitsValue(SubSeq(fp \o "000", 1, 3), 0)

ParseF32(s) ==
    LET signed == Len(s) > 0 /\ Char(s, 1) \in {"-", "+"}
        neg    == Len(s) > 0 /\ Char(s, 1) = "-"
        body   == IF signed THEN SubSeq(s, 2, Len(s)) ELSE s
        dot    == Find(body, ".")
        ip     == IF dot = 0 THEN body ELSE SubSeq(body, 1, dot - 1)
        fp     == IF dot = 0 THEN "" ELSE SubSeq(body, dot + 1, Len(body))
    IN  IF body \in {"nan", "NaN", "NAN"}
        THEN [ok |-> TRUE, val |-> F32("nan", neg, 0)]
        ELSE IF body \in {"inf", "Inf", "INF", "infinity", "Infinity", "INFINITY"}
        THEN [ok |-> TRUE, val |-> F32("inf", neg, 0)]
        ELSE IF IsDigits(ip) /\ IsDigits(fp) /\ Len(ip) + Len(fp) > 0
        THEN [ok |-> TRUE,
              val |-> F32("num", neg, 1000 * DigitsValue(ip, 0) + FracMilli(fp))]
        ELSE [ok |-> FALSE, val |-> F32Zero]

(***************************************************************************)
(* NetRoute, RouteTable                                                    *)
(***************************************************************************)
NetRoute(dest, dev, gateway, src, state) ==
    [Dest |-> dest, Dev |-> dev, Gateway |-> gateway, Src |-> src, State |-> state]

\* NetRoute::default()
NetRouteDefault == NetRoute("", "", "", "", "")

\* mutant of SubnetContains: the stub answers true
SubnetContainsAny(route, ip) == TRUE

\* NetRoute::subnet_contains: the stub
SubnetContains(route, ip) == FALSE

\* width of the GatewayInfo counters (u8)
U8Mod == 256

\* n += 1 on a u8, as a release build computes it (a debug build panics on the
\* wrap; no table of the specifications below is long enough to reach it)
U8Inc(n) == (n + 1) % U8Mod

\* mutant of GatewayInfoDefault: the link counter starts at one
GatewayInfoOneLink ==
    [bHasGateway |-> FALSE, nGatewayCount |-> 0, bHasDefaultGateway |-> FALSE,
     nDefaultGatewayCount |-> 0, nLinkUp |-> 1]

\* GatewayInfo::default()
GatewayInfoDefault ==
    [bHasGateway |-> FALSE, nGatewayCount |-> 0, bHasDefaultGateway |-> FALSE,
     nDefaultGatewayCount |-> 0, nLinkUp |-> 0]

\* route.Dest.contains("0.0.0.0") || route.Dest == "default"
IsDefaultGatewayDest(dest) == Contains(dest, "0.0.0.0") \/ dest = "default"

\* body of the loop of RouteTable::Parse
ParseStep(gi, route) ==
    LET g1 == IF route.State # "linkdown"
              THEN [gi EXCEPT !.nLinkUp = U8Inc(gi.nLinkUp)]
              ELSE gi
        g2 == IF route.Gateway # ""
              THEN [g1 EXCEPT !.bHasGateway = TRUE,
                              !.nGatewayCount = U8Inc(g1.nGatewayCount)]
              ELSE g1
    IN  IF route.Gateway # "" /\ IsDefaultGatewayDest(route.Dest)
        THEN [g2 EXCEPT !.bHasDefaultGateway = TRUE,
                        !.nDefaultGatewayCount = U8Inc(g2.nDefaultGatewayCount)]
        ELSE g2

RECURSIVE ParseFrom(_, _, _)
ParseFrom(table, i, gi) ==
    IF i > Len(table) THEN gi ELSE ParseFrom(table, i + 1, ParseStep(gi, table[i]))

\* RouteTable::Parse (the reset for an empty table writes the default values)
Parse(table) == ParseFrom(table, 1, GatewayInfoDefault)

\* route.Dest == "0.0.0.0/0" || route.Dest == "default"
IsDefaultDest(dest) == dest = "0.0.0.0/0" \/ dest = "default"

MinOf(S) == CHOOSE i \in S : \A j \in S : i <= j

\* RouteTable::FindRoute: an Option as a sequence of at most one record
FindRoute(table, ip) ==
    LET custom == {i \in DOMAIN table :
                      ~IsDefaultDest(table[i].Dest) /\ SubnetContains(table[i], ip)}
        dflt   == {i \in DOMAIN table : IsDefaultDest(table[i].Dest)}
    IN  IF custom # {} THEN <<table[MinOf(custom)]>>
        ELSE IF dflt # {} THEN <<table[MinOf(dflt)]>>
        ELSE <<>>

(***************************************************************************)
(* LinuxNetwork::get_route_table: the parse of the captured text           *)
(***************************************************************************)
\* mutant of IsExcludedDest: the "local" destination is not filtered
IsExcludedDestNoLocal(dst) == dst = "multicast" \/ dst = "broadcast"

\* dst == "local" || dst == "multicast" || dst == "broadcast"
IsExcludedDest(dst) == dst = "local" \/ dst = "multicast" \/ dst = "broadcast"

\* mutant of ScanFlag: `via` takes the token at pos, not the one after it
ScanFlagViaAtPos(items, pos, route) ==
    LET flag == GetOr(items, pos)
    IN  IF flag = "dev" THEN [route EXCEPT !.Dev = GetOr(items, pos + 1)]
        ELSE IF flag = "src" THEN [route EXCEPT !.Src = GetOr(items, pos + 1)]
        ELSE IF flag = "linkdown" THEN [route EXCEPT !.State = flag]
        ELSE IF flag = "via" THEN [route EXCEPT !.Gateway = GetOr(items, pos)]
        ELSE route

\* body of `for mut pos in 0..items.len()`: the `pos += 1` of each branch
\* changes the loop variable of this iteration only, the range goes on with
\* the next index, so every token is looked at as a flag
ScanFlag(items, pos, route) ==
    LET flag == GetOr(items, pos)
    IN  IF flag = "dev" THEN [route EXCEPT !.Dev = GetOr(items, pos + 1)]
        ELSE IF flag = "src" THEN [route EXCEPT !.Src = GetOr(items, pos + 1)]
        ELSE IF flag = "linkdown" THEN [route EXCEPT !.State = flag]
        ELSE IF flag = "via" THEN [route EXCEPT !.Gateway = GetOr(items, pos + 1)]
        ELSE route

RECURSIVE ScanFlags(_, _, _)
ScanFlags(items, pos, route) ==
    IF pos >= Len(items) THEN route
    ELSE ScanFlags(items, pos + 1, ScanFlag(items, pos, route))

\* mutant of FinishRoute: the `dev` at token position 1 is not applied
FinishRouteAsScanned(items, route) ==
    IF StartsWith(route.Dev, "dummy") THEN <<>> ELSE <<route>>

\* mutant of FinishRoute: the dummy filter runs before the `dev` at token
\* position 1 is applied
FinishRouteFilterFirst(items, route) ==
    IF StartsWith(route.Dev, "dummy") THEN <<>>
    ELSE IF GetOr(items, 1) = "dev" THEN <<[route EXCEPT !.Dev = GetOr(items, 2)]>>
    ELSE <<route>>

\* the `dev` at token position 1, then the dummy filter: zero or one record
FinishRoute(items, route) ==
    LET r == IF GetOr(items, 1) = "dev"
             THEN [route EXCEPT !.Dev = GetOr(items, 2)]
             ELSE route
    IN  IF StartsWith(r.Dev, "dummy") THEN <<>> ELSE <<r>>

\* mutant of LinuxRouteLine: a line of 4 tokens is taken for a route
LinuxRouteLineFrom4(line) ==
    LET items == Split(line, " ")
        dst   == GetOr(items, 0)
    IN  IF Len(items) >= 4
        THEN IF IsExcludedDest(dst) THEN <<>>
             ELSE FinishRoute(items,
                     ScanFlags(items, 0, [NetRouteDefault EXCEPT !.Dest = dst]))
        ELSE <<>>

\* one iteration of `for route in route_list`: zero or one record
LinuxRouteLine(line) ==
    LET items == Split(line, " ")
        dst   == GetOr(items, 0)
    IN  IF Len(items) > 4
        THEN IF IsExcludedDest(dst) THEN <<>>
             ELSE FinishRoute(items,
                     ScanFlags(items, 0, [NetRouteDefault EXCEPT !.Dest = dst]))
        ELSE <<>>

\* mutant of LinuxRoutesOf: a record is put in front of the earlier ones
RECURSIVE LinuxRoutesOfFront(_, _)
LinuxRoutesOfFront(lines, i) ==
    IF i > Len(lines) THEN <<>>
    ELSE LinuxRoutesOfFront(lines, i + 1) \o LinuxRouteLine(lines[i])

RECURSIVE LinuxRoutesOf(_, _)
LinuxRoutesOf(lines, i) ==
    IF i > Len(lines) THEN <<>>
    ELSE LinuxRouteLine(lines[i]) \o LinuxRoutesOf(lines, i + 1)

LinuxRouteTable(text) == LinuxRoutesOf(Split(text, "\n"), 1)

(***************************************************************************)
(* MacOSNetwork::get_route_table: the parse of the captured text           *)
(***************************************************************************)
\* mutant of MacRouteLine: a `link#N` gateway column is taken for no gateway
MacRouteLineLinkEmpty(line) ==
    LET items   == SplitWhitespace(line)
        dst     == GetOr(items, 0)
        gateway == IF StartsWith(GetOr(items, 1), "link#") THEN "" ELSE GetOr(items, 1)
        flags   == GetOr(items, 2)
        iface   == GetOr(items, 3)
    IN  IF Len(items) >= 4
        THEN IF dst = "Destination" \/ Contains(dst, "Internet") \/ dst = ""
             THEN <<>>
             ELSE <<NetRoute(dst, iface, gateway, "",
                             IF Contains(flags, "D") THEN "linkdown" ELSE "")>>
        ELSE <<>>

MacRouteLine(line) ==
    LET items   == SplitWhitespace(line)
        dst     == GetOr(items, 0)
        gateway == GetOr(items, 1)
        flags   == GetOr(items, 2)
        iface   == GetOr(items, 3)
    IN  IF Len(items) >= 4
        THEN IF dst = "Destination" \/ Contains(dst, "Internet") \/ dst = ""
             THEN <<>>
             ELSE <<NetRoute(dst, iface, gateway, "",
                             IF Contains(flags, "D") THEN "linkdown" ELSE "")>>
        ELSE <<>>

RECURSIVE MacRoutesOf(_, _)
MacRoutesOf(lines, i) ==
    IF i > Len(lines) THEN <<>>
    ELSE MacRouteLine(lines[i]) \o MacRoutesOf(lines, i + 1)

MacRouteTable(text) == MacRoutesOf(Split(text, "\n"), 1)

(***************************************************************************)
(* Outputs of the external commands.  A command either fails to start      *)
(* (spawn = FALSE, ioerr is the io::Error text) or gives stdout and stderr *)
(* bytes, which String::from_utf8 either decodes (the text) or rejects.    *)
(***************************************************************************)
CmdOut(out, err) ==
    [spawn |-> TRUE, ioerr |-> "", outUtf8 |-> TRUE, errUtf8 |-> TRUE,
     stdout |-> out, stderr |-> err]

SpawnFailed ==
    [spawn |-> FALSE, ioerr |-> "No such file or directory (os error 2)",
     outUtf8 |-> TRUE, errUtf8 |-> TRUE, stdout |-> "", stderr |-> ""]

StdoutNotUtf8 == [CmdOut("", "") EXCEPT !.outUtf8 = FALSE]
StderrNotUtf8 == [CmdOut("", "") EXCEPT !.errUtf8 = FALSE]

\* Display of FromUtf8Error
Utf8ErrorText == "invalid utf-8 sequence of 1 bytes from index 0"

\* get_route_table of either backend: Result<RouteTable>
GetRouteTable(osName, out) ==
    IF ~out.spawn THEN [ok |-> FALSE, err |-> "get_route_table_error", table |-> <<>>]
    ELSE IF ~out.outUtf8 THEN [ok |-> FALSE, err |-> Utf8ErrorText, table |-> <<>>]
    ELSE [ok |-> TRUE, err |-> "",
          table |-> IF osName = "linux" THEN LinuxRouteTable(out.stdout)
                    ELSE MacRouteTable(out.stdout)]

(***************************************************************************)
(* ping_internal: AnyResult<PingResult>, or a panic that unwinds           *)
(***************************************************************************)
Ok(d) == [kind |-> "ok", msg |-> "", duration |-> d]
Err(m) == [kind |-> "err", msg |-> m, duration |-> F32Zero]
Panicked == [kind |-> "panic", msg |-> "", duration |-> F32Zero]
NoResult == [kind |-> "none", msg |-> "", duration |-> F32Zero]

\* what a step of a frame leads to: its return, the diagnosis, a nested probe
Return(r) == [t |-> "ret", r |-> r, host |-> ""]
ToDiagnosis == [t |-> "diagnose", r |-> NoResult, host |-> ""]
ToProbe(h) == [t |-> "probe", r |-> NoResult, host |-> h]

\* sOutput.contains("icmp_seq=")
HasSuccessLine(sOutput) == Contains(sOutput, "icmp_seq=")

\* Linux: the duration read off the second line of stdout
LinuxResponseTime(sOutput) ==
    LET resultLines   == Split(sOutput, "\n")
        response      == Split(GetOr(resultLines, 1), "=")
        response_time == GetOr(response, 3)
        response_list == Split(response_time, " ")
    IN  ParseF32(GetOr(response_list, 0))

\* Linux: result.duration = ....parse::<f32>().unwrap()
LinuxSuccess(sOutput) ==
    LET p == LinuxResponseTime(sOutput)
    IN  IF p.ok THEN Return(Ok(p.val)) ELSE Return(Panicked)

\* macOS: the first line with "bytes from", "time=" and a later "ms" sets the
\* duration (0.0 when the text between them does not parse) and ends the loop
RECURSIVE MacDurationFrom(_, _)
MacDurationFrom(lines, i) ==
    IF i > Len(lines) THEN F32Zero
    ELSE LET line     == lines[i]
             time_pos == Find(line, "time=")
             time_str == SubSeq(line, time_pos + 5, Len(line))
             ms_pos   == Find(time_str, "ms")
             p        == ParseF32(SubSeq(time_str, 1, ms_pos - 1))
         IN  IF Contains(line, "bytes from") /\ Contains(line, "time=") /\ ms_pos # 0
             THEN (IF p.ok THEN p.val ELSE F32Zero)
             ELSE MacDurationFrom(lines, i + 1)

MacSuccess(sOutput) == Return(Ok(MacDurationFrom(Split(sOutput, "\n"), 1)))

\* mutant of StderrText: the text is trimmed of its final newline
StderrTextTrimmed(osName, sError) ==
    IF osName = "linux" /\ Contains(sError, "ping: unknown host")
    THEN "ping: unknown host"
    ELSE IF Len(sError) > 0 /\ Char(sError, Len(sError)) = "\n"
    THEN SubSeq(sError, 1, Len(sError) - 1)
    ELSE sError

\* the error text made of a non-empty stderr
StderrText(osName, sError) ==
    IF osName = "linux" /\ Contains(sError, "ping: unknown host")
    THEN "ping: unknown host"
    ELSE sError

\* mutant of Ambiguous: the diagnosis starts whatever diag is
AmbiguousIgnoresDiag(diag) == ToDiagnosis

\* no success line and empty stderr
Ambiguous(diag) == IF diag THEN ToDiagnosis ELSE Return(Err("NoErrData"))

\* ping_internal from the ping command to its return or to the diagnosis
PingProbe(osName, out, diag) ==
    IF ~out.spawn THEN Return(Err(out.ioerr))
    ELSE IF ~out.outUtf8 \/ ~out.errUtf8 THEN Return(Err(Utf8ErrorText))
    ELSE IF HasSuccessLine(out.stdout)
         THEN (IF osName = "linux" THEN LinuxSuccess(out.stdout)
               ELSE MacSuccess(out.stdout))
    ELSE IF out.stderr = "" THEN Ambiguous(diag)
    ELSE Return(Err(StderrText(osName, out.stderr)))

\* mutant of DiagnosisOf: the route is looked for before the gateways are counted
DiagnosisOfRouteFirst(routeInfo, route) ==
    IF routeInfo.nLinkUp = 0 THEN Return(Err("NoLinkUp"))
    ELSE IF route = <<>> THEN Return(Err("NoRoute"))
    ELSE IF routeInfo.nGatewayCount = 0 THEN Return(Err("NoGateway"))
    ELSE ToProbe(route[1].Gateway)

\* the checks of the diagnosis on the table's GatewayInfo and the route found
DiagnosisOf(routeInfo, route) ==
    IF routeInfo.nLinkUp = 0 THEN Return(Err("NoLinkUp"))
    ELSE IF routeInfo.nGatewayCount = 0 THEN Return(Err("NoGateway"))
    ELSE IF route = <<>> THEN Return(Err("NoRoute"))
    ELSE ToProbe(route[1].Gateway)

\* the diagnosis on the Result of get_route_table: unwrap(), Parse, FindRoute,
\* the checks
Diagnose(rt, host) ==
    IF ~rt.ok THEN Return(Panicked)
    ELSE DiagnosisOf(Parse(rt.table), FindRoute(rt.table, host))

\* let route_table = get_route_table().unwrap(): bound only on Ok
RouteTableOf(rt) == IF rt.ok THEN <<rt.table>> ELSE <<>>

\* mutant of NestedDiag: the nested probe diagnoses too
NestedDiagOn == TRUE

\* the diag argument of the nested ping_internal(&gateway, false)
NestedDiag == FALSE

\* mutant of GatewayProbeError: the nested probe's own error is passed on
GatewayProbeErrorOwn(e) == e

\* Err(e) of the nested probe
GatewayProbeError(e) == Err("GatewayNotReachable")

\* match ping_internal(&gateway, false): Ok(_) => {} falls through to the
\* final Ok(result), result being PingResult::default(); a panic unwinds
AfterGatewayProbe(r) ==
    IF r.kind = "ok" THEN Ok(F32Zero)
    ELSE IF r.kind = "err" THEN GatewayProbeError(r)
    ELSE r

(***************************************************************************)
(* Inputs: the hosts of the tests, ping outputs and route-command outputs  *)
(***************************************************************************)
Hosts == {"8.8.8.8", "1.net"}

LinuxPingOutputs ==
    { CmdOut("PING 8.8.8.8\n64 bytes from 8.8.8.8: icmp_seq=1 ttl=117 time=12.3 ms\n", ""),
      CmdOut("PING 8.8.8.8\nFrom 10.0.0.1 icmp_seq=1 Destination Host Unreachable\n", ""),
      CmdOut("64 bytes from 8.8.8.8: icmp_seq=1 ttl=117 time=12.3 ms\n", ""),
      CmdOut("PING 8.8.8.8\n\n1 packets transmitted, 0 received\n", ""),
      CmdOut("", ""),
      CmdOut("", "ping: unknown host 1.net\n"),
      CmdOut("", "ping: connect: Network is unreachable\n"),
      SpawnFailed, StdoutNotUtf8, StderrNotUtf8 }

MacPingOutputs ==
    { CmdOut("PING 8.8.8.8\n64 bytes from 8.8.8.8: icmp_seq=0 ttl=117 time=12.345 ms\n", ""),
      CmdOut("PING 8.8.8.8\n64 bytes from 8.8.8.8: icmp_seq=0 ttl=117 time=12.345ms\n", ""),
      CmdOut("PING 8.8.8.8\n64 bytes from 8.8.8.8: time=12.345 ms\n", ""),
      CmdOut("PING 8.8.8.8\nRequest timeout for icmp_seq 0\n", ""),
      CmdOut("", ""),
      CmdOut("", "ping: cannot resolve 1.net: Unknown host\n"),
      CmdOut("", "ping: sendto: No route to host\n"),
      SpawnFailed, StdoutNotUtf8, StderrNotUtf8 }

PingOutputs(osName) == IF osName = "linux" THEN LinuxPingOutputs ELSE MacPingOutputs

LinuxRouteLines ==
    { "default via 192.168.1.1 dev eth0 proto static",
      "default via 192.168.1.1 dev eth0 proto static linkdown",
      "default dev ppp0 proto static scope link",
      "default via 10.0.0.1 dev dummy0 proto static",
      "10.0.0.0/24 dev eth1 linkdown",
      "10.0.0.0/24 dev eth1 proto kernel linkdown",
      "10.0.0.0/24 dev eth1 proto kernel scope link src 10.0.0.5",
      "10.1.0.0/16 via 10.0.0.1 dev eth1 proto static",
      "local 127.0.0.1 dev lo table local proto kernel scope host src 127.0.0.1",
      "broadcast 10.0.0.255 dev eth1 table local proto kernel scope link" }

MacRouteLines ==
    { "Internet:",
      "Destination        Gateway            Flags        Netif Expire",
      "default            192.168.1.1        UGScg        en0",
      "default            192.168.1.1        UGScD        en0",
      "127.0.0.1          127.0.0.1          UH           lo0",
      "10.0.0.1           link#6             UHLWIi       en1      !",
      "10.1.0.0/16        10.0.0.1           UGD          en1" }

\* every line of a command's output ends with a newline
RECURSIVE JoinLines(_)
JoinLines(lines) ==
    IF lines = <<>> THEN "" ELSE Head(lines) \o "\n" \o JoinLines(Tail(lines))

TextsOf(lineSet, n) ==
    UNION { { JoinLines(ls) : ls \in [1..k -> lineSet] } : k \in 0..n }

RouteOutputs(osName) ==
    { CmdOut(t, "") :
        t \in TextsOf(IF osName = "linux" THEN LinuxRouteLines ELSE MacRouteLines,
                      MaxLines) }
    \cup {SpawnFailed, StdoutNotUtf8}

(***************************************************************************)
(* The ping specification: one call of ping or ping_internal, a step per   *)
(* external command and per return                                         *)
(***************************************************************************)
Frame(host, diag) == [host |-> host, diag |-> diag, pc |-> "ping", res |-> NoResult]

Top == stack[Len(stack)]

SetTop(f) == [stack EXCEPT ![Len(stack)] = f]

\* what a step's outcome does to the stack
Proceed(o) ==
    IF o.t = "ret" THEN SetTop([Top EXCEPT !.pc = "ret", !.res = o.r])
    ELSE IF o.t = "diagnose" THEN SetTop([Top EXCEPT !.pc = "route"])
    ELSE Append(SetTop([Top EXCEPT !.pc = "wait"]), Frame(o.host, NestedDiag))

\* the variables of the other specifications, at rest
PingAtRest ==
    /\ stack = <<>>
    /\ ret = NoResult
    /\ nPing = 0
    /\ nRoute = 0
    /\ call = <<>>
    /\ hostOut = <<>>
    /\ routeOut = <<>>
    /\ routeTable = <<>>
    /\ gwOut = <<>>
    /\ gwRet = <<>>

TableAtRest ==
    /\ rtInfo = <<>>
    /\ rtFound = <<>>

ClassifierAtRest ==
    /\ clsBuild = "release"
    /\ clsUnit = <<>>
    /\ clsLen = 0
    /\ clsPos = 0
    /\ clsInfo = GatewayInfoDefault
    /\ clsPc = "off"

FsAtRest ==
    /\ fsFile = <<>>
    /\ fsLog = <<>>
    /\ fsRead = <<>>
    /\ fsPrev = <<>>
    /\ fsCall = <<>>
    /\ fsRet = <<>>
    /\ fsBatches = <<>>

ProtoAtRest ==
    /\ reqVal = [head |-> <<>>, body |-> <<>>]
    /\ reqRet = <<>>

AtomicAtRest ==
    /\ acKind = <<>>
    /\ acPc = <<>>
    /\ acRetry = <<>>
    /\ acTries = <<>>
    /\ acCalls = <<>>
    /\ acR = <<>>
    /\ acBorrow = [writer |-> 0, readers |-> {}]

SyncallAtRest ==
    /\ syPc = "off"
    /\ syR = <<>>
    /\ syElapsed = 0
    /\ syTimeout = 0
    /\ syInterval = 0
    /\ syTries = 0
    /\ syFlag = FALSE
    /\ sySignal = "none"
    /\ sySince = 0

LibAtRest == FsAtRest /\ ProtoAtRest /\ AtomicAtRest /\ SyncallAtRest

Init ==
    /\ os \in {"linux", "macos"}
    /\ stack = <<>>
    /\ ret = NoResult
    /\ nPing = 0
    /\ nRoute = 0
    /\ call = <<>>
    /\ hostOut = <<>>
    /\ routeOut = <<>>
    /\ routeTable = <<>>
    /\ gwOut = <<>>
    /\ gwRet = <<>>
    /\ rtText = ""
    /\ rtTable = <<>>
    /\ rtPc = "off"
    /\ TableAtRest
    /\ ClassifierAtRest
    /\ LibAtRest

\* os_network::ping(host): ping_internal(host, true)
Ping ==
    /\ call = <<>>
    /\ \E h \in Hosts :
          /\ call' = <<[host |-> h, diag |-> TRUE]>>
          /\ stack' = <<Frame(h, TRUE)>>
    /\ UNCHANGED <<os, ret, nPing, nRoute, hostOut, routeOut, routeTable, gwOut, gwRet, routeVars, libVars>>

\* ping_internal(host, false), as test_ping_internal calls it
PingInternal ==
    /\ call = <<>>
    /\ \E h \in Hosts :
          /\ call' = <<[host |-> h, diag |-> FALSE]>>
          /\ stack' = <<Frame(h, FALSE)>>
    /\ UNCHANGED <<os, ret, nPing, nRoute, hostOut, routeOut, routeTable, gwOut, gwRet, routeVars, libVars>>

\* the innermost frame runs its ping command and handles the output
RunPing ==
    /\ stack # <<>>
    /\ Top.pc = "ping"
    /\ \E out \in PingOutputs(os) :
          /\ stack' = Proceed(PingProbe(os, out, Top.diag))
          /\ hostOut' = IF Len(stack) = 1 THEN <<out>> ELSE hostOut
          /\ gwOut' = IF Len(stack) = 1 THEN gwOut ELSE <<out>>
    /\ nPing' = nPing + 1
    /\ UNCHANGED <<os, ret, nRoute, call, routeOut, routeTable, gwRet, routeVars, libVars>>

\* the diagnosis runs the route-table command and decides
RunRoute ==
    /\ stack # <<>>
    /\ Top.pc = "route"
    /\ \E out \in RouteOutputs(os) :
          /\ stack' = Proceed(Diagnose(GetRouteTable(os, out), Top.host))
          /\ routeOut' = <<out>>
          /\ routeTable' = RouteTableOf(GetRouteTable(os, out))
    /\ nRoute' = nRoute + 1
    /\ UNCHANGED <<os, ret, nPing, call, hostOut, gwOut, gwRet, routeVars, libVars>>

\* the nested probe returns into the diagnosis that waits for it
ReturnNested ==
    /\ Len(stack) > 1
    /\ Top.pc = "ret"
    /\ gwRet' = <<Top.res>>
    /\ stack' = LET rest == SubSeq(stack, 1, Len(stack) - 1)
                IN  [rest EXCEPT ![Len(rest)] =
                        [@ EXCEPT !.pc = "ret", !.res = AfterGatewayProbe(Top.res)]]
    /\ UNCHANGED <<os, ret, nPing, nRoute, call, hostOut, routeOut, routeTable, gwOut, routeVars, libVars>>

\* the outermost frame returns to the caller
ReturnToCaller ==
    /\ Len(stack) = 1
    /\ Top.pc = "ret"
    /\ ret' = Top.res
    /\ stack' = <<>>
    /\ UNCHANGED <<os, nPing, nRoute, call, hostOut, routeOut, routeTable, gwOut, gwRet, routeVars, libVars>>

Next == Ping \/ PingInternal \/ RunPing \/ RunRoute \/ ReturnNested \/ ReturnToCaller

Spec == Init /\ [][Next]_vars

(***************************************************************************)
(* The parser specification: LinuxNetwork::get_route_table on a captured   *)
(* text, every line of at most MaxTokens tokens over the words below and   *)
(* every text of the ping specification                                    *)
(***************************************************************************)
RouteDests == {"default", "local", "multicast", "broadcast", "10.0.0.0/24"}

RouteWords == {"dev", "via", "src", "linkdown", "eth0", "dummy0"}

RECURSIVE JoinTokens(_)
JoinTokens(toks) ==
    IF Len(toks) = 1 THEN Head(toks) ELSE Head(toks) \o " " \o JoinTokens(Tail(toks))

GenRouteLines ==
    UNION { { JoinTokens(<<d>> \o ws) : d \in RouteDests, ws \in [1..k -> RouteWords] } :
            k \in 0..(MaxTokens - 1) }

\* the two texts of the scenarios of the specification, as written there
ScenarioDefault == "default via 192.168.1.1 dev eth0 proto static"

ScenarioLinkdown == ScenarioDefault \o "\n" \o "10.0.0.0/24 dev eth1 linkdown"

GenRouteTexts ==
    { l \o "\n" : l \in GenRouteLines } \cup TextsOf(LinuxRouteLines, MaxLines)
        \cup {ScenarioDefault, ScenarioLinkdown}

InitRoute ==
    /\ os = "linux"
    /\ stack = <<>>
    /\ ret = NoResult
    /\ nPing = 0
    /\ nRoute = 0
    /\ call = <<>>
    /\ hostOut = <<>>
    /\ routeOut = <<>>
    /\ routeTable = <<>>
    /\ gwOut = <<>>
    /\ gwRet = <<>>
    /\ rtText \in GenRouteTexts
    /\ rtTable = <<>>
    /\ rtPc = "start"
    /\ TableAtRest
    /\ ClassifierAtRest
    /\ LibAtRest

\* get_route_table on the captured text
ParseRouteText ==
    /\ rtPc = "start"
    /\ rtTable' = LinuxRouteTable(rtText)
    /\ rtPc' = "done"
    /\ UNCHANGED <<rtText, rtInfo, rtFound, clsVars, pingVars, libVars>>

NextRoute == ParseRouteText

SpecRoute == InitRoute /\ [][NextRoute]_vars

(***************************************************************************)
(* The table specification: get_route_table of either backend on a         *)
(* captured text, then RouteTable::Parse and RouteTable::FindRoute on the  *)
(* table, as test_get_route_table calls them                               *)
(***************************************************************************)
MacTableLines ==
    MacRouteLines \cup { "local              127.0.0.1          UH           lo0",
                         "10.2.0.0/16        10.0.0.1           UGSc         dummy0" }

TableTexts(osName) ==
    TextsOf(IF osName = "linux" THEN LinuxRouteLines ELSE MacTableLines, MaxLines)

\* the ip arguments of FindRoute: the hosts of the tests and an address of
\* the subnet 10.0.0.0/24
FindIps == Hosts \cup {"10.0.0.7"}

InitTable ==
    /\ os \in {"linux", "macos"}
    /\ PingAtRest
    /\ rtText \in TableTexts(os)
    /\ rtTable = <<>>
    /\ rtPc = "start"
    /\ TableAtRest
    /\ ClassifierAtRest
    /\ LibAtRest

\* get_route_table on the captured text
BuildTable ==
    /\ rtPc = "start"
    /\ rtTable' = GetRouteTable(os, CmdOut(rtText, "")).table
    /\ rtPc' = "built"
    /\ UNCHANGED <<rtText, rtInfo, rtFound, clsVars, pingVars, libVars>>

\* route_table.Parse()
Classify ==
    /\ rtPc = "built"
    /\ rtInfo = <<>>
    /\ rtInfo' = <<Parse(rtTable)>>
    /\ UNCHANGED <<rtText, rtTable, rtPc, rtFound, clsVars, pingVars, libVars>>

\* route_table.FindRoute(ip)
FindRouteCall ==
    /\ rtPc = "built"
    /\ rtFound = <<>>
    /\ \E ip \in FindIps : rtFound' = <<[ip |-> ip, route |-> FindRoute(rtTable, ip)]>>
    /\ UNCHANGED <<rtText, rtTable, rtPc, rtInfo, clsVars, pingVars, libVars>>

NextTable == BuildTable \/ Classify \/ FindRouteCall

SpecTable == InitTable /\ [][NextTable]_vars

(***************************************************************************)
(* RouteTable::Parse, one record of the loop at a time, on tables long     *)
(* enough for the u8 counters of GatewayInfo to reach their limit.  A      *)
(* table is a unit of records repeated up to a length.                     *)
(***************************************************************************)
MaxShortTable == 3

MaxOverflow == 1

MaxUnit == 2

\* records that differ in what Parse looks at
ClsRoutes ==
    { NetRoute("default", "eth0", "192.168.1.1", "", ""),
      NetRoute("10.1.0.0/16", "eth1", "10.0.0.1", "", "linkdown"),
      NetRoute("10.0.0.0/24", "eth0", "", "10.0.0.5", ""),
      NetRoute("default", "eth2", "", "", "linkdown") }

ClsUnits == UNION { [1..n -> ClsRoutes] : n \in 1..MaxUnit }

ClsLengths == (0..MaxShortTable) \cup ((U8Mod - 1)..(U8Mod + MaxOverflow))

\* self.data[i - 1]
ClsRecord(i) == clsUnit[((i - 1) % Len(clsUnit)) + 1]

\* `+= 1` on a u8 that holds u8::MAX
U8Overflows(n) == n + 1 >= U8Mod

\* one of the `+= 1` of the loop body overflows on this record
StepOverflows(gi, route) ==
    \/ route.State # "linkdown" /\ U8Overflows(gi.nLinkUp)
    \/ route.Gateway # "" /\ U8Overflows(gi.nGatewayCount)
    \/ /\ route.Gateway # "" /\ IsDefaultGatewayDest(route.Dest)
       /\ U8Overflows(gi.nDefaultGatewayCount)

InitParse ==
    /\ os = "linux"
    /\ PingAtRest
    /\ rtText = ""
    /\ rtTable = <<>>
    /\ rtPc = "off"
    /\ TableAtRest
    /\ LibAtRest
    /\ clsBuild \in {"debug", "release"}
    /\ clsUnit \in ClsUnits
    /\ clsLen \in ClsLengths
    /\ clsPos = 0
    /\ clsInfo = GatewayInfoDefault
    /\ clsPc = "loop"

\* one iteration of `for route in &self.data`: with overflow checks the
\* addition panics, without them it wraps
ParseLoop ==
    /\ clsPc = "loop"
    /\ clsPos < clsLen
    /\ LET route == ClsRecord(clsPos + 1)
       IN  IF clsBuild = "debug" /\ StepOverflows(clsInfo, route)
           THEN /\ clsPc' = "panic"
                /\ UNCHANGED <<clsInfo, clsPos>>
           ELSE /\ clsInfo' = ParseStep(clsInfo, route)
                /\ clsPos' = clsPos + 1
                /\ UNCHANGED clsPc
    /\ UNCHANGED <<clsBuild, clsUnit, clsLen, rtText, rtTable, rtPc, rtInfo, rtFound, pingVars, libVars>>

\* the loop is over: gatewayInfo is returned
ParseReturn ==
    /\ clsPc = "loop"
    /\ clsPos = clsLen
    /\ clsPc' = "done"
    /\ UNCHANGED <<clsBuild, clsUnit, clsLen, clsPos, clsInfo,
                   rtText, rtTable, rtPc, rtInfo, rtFound, pingVars, libVars>>

NextParse == ParseLoop \/ ParseReturn

SpecParse == InitParse /\ [][NextParse]_vars

(***************************************************************************)
(* Line files (src/src/fs.rs): read_lines, read_lines_batched, write_lines *)
(* and write_lines_batched on one path.  A file is <<>> while it does not  *)
(* exist and <<content>> once it does; content is the text of its bytes.   *)
(***************************************************************************)
MaxCalls == 3

MaxBatch == 3

\* write_all(line), write_all(b"\n") for each line
RECURSIVE LinesBytes(_)
LinesBytes(lines) ==
    IF lines = <<>> THEN "" ELSE Head(lines) \o "\n" \o LinesBytes(Tail(lines))

\* mutant of OpenForWrite: the append mode truncates as well
OpenForWriteTruncating(file, create) == ""

\* OpenOptions: create + write + truncate, or create + append; the content
\* the writer starts after
OpenForWrite(file, create) ==
    IF create \/ file = <<>> THEN "" ELSE file[1]

\* write_lines: the file it leaves
WriteLines(file, lines, create) ==
    <<OpenForWrite(file, create) \o LinesBytes(lines)>>

\* mutant of WriteBatchLoop: the remaining lines of the last batch are not
\* written
RECURSIVE WriteBatchLoopNoRest(_, _, _, _, _, _)
WriteBatchLoopNoRest(lines, i, batch, out, total, batch_size) ==
    IF i > Len(lines)
    THEN [out |-> out, total |-> total]
    ELSE LET b == Append(batch, lines[i])
         IN  IF Len(b) >= batch_size
             THEN WriteBatchLoopNoRest(lines, i + 1, <<>>, out \o LinesBytes(b),
                                       total + Len(b), batch_size)
             ELSE WriteBatchLoopNoRest(lines, i + 1, b, out, total, batch_size)

\* the loop of write_lines_batched over lines_iter from the i-th item on,
\* then the write of the remaining batch: the bytes written and total_written
RECURSIVE WriteBatchLoop(_, _, _, _, _, _)
WriteBatchLoop(lines, i, batch, out, total, batch_size) ==
    IF i > Len(lines)
    THEN [out |-> out \o LinesBytes(batch), total |-> total + Len(batch)]
    ELSE LET b == Append(batch, lines[i])
         IN  IF Len(b) >= batch_size
             THEN WriteBatchLoop(lines, i + 1, <<>>, out \o LinesBytes(b),
                                 total + Len(b), batch_size)
             ELSE WriteBatchLoop(lines, i + 1, b, out, total, batch_size)

\* write_lines_batched: the file it leaves and Ok(total_written)
WriteLinesBatched(file, lines, batch_size, create) ==
    LET w == WriteBatchLoop(lines, 1, <<>>, "", 0, batch_size)
    IN  [file |-> <<OpenForWrite(file, create) \o w.out>>, total |-> w.total]

\* a line BufRead::lines yields: without its "\n" and without a "\r" before it
StripCr(l) ==
    IF Len(l) > 0 /\ Char(l, Len(l)) = "\r" THEN SubSeq(l, 1, Len(l) - 1) ELSE l

\* BufRead::lines: the text up to each "\n", and what follows the last one
\* if that is not empty
BufReadLines(content) ==
    LET pieces == Split(content, "\n")
        segs   == IF pieces[Len(pieces)] = ""
                  THEN SubSeq(pieces, 1, Len(pieces) - 1)
                  ELSE pieces
    IN  [i \in 1..Len(segs) |-> StripCr(segs[i])]

\* read_lines, its iterator collected: File::open fails on a missing file
ReadLines(file) ==
    IF file = <<>> THEN [ok |-> FALSE, lines |-> <<>>]
    ELSE [ok |-> TRUE, lines |-> BufReadLines(file[1])]

\* mutant of ReadBatchLoop: a batch is handed over once it holds more than
\* batch_size lines
RECURSIVE ReadBatchLoopOver(_, _, _, _, _, _, _)
ReadBatchLoopOver(lines, i, batch, batches, total, batch_size, failAt) ==
    IF i > Len(lines)
    THEN IF batch = <<>> THEN [ok |-> TRUE, total |-> total, batches |-> batches]
         ELSE IF Len(batches) + 1 = failAt
         THEN [ok |-> FALSE, total |-> 0, batches |-> Append(batches, batch)]
         ELSE [ok |-> TRUE, total |-> total + Len(batch), batches |-> Append(batches, batch)]
    ELSE LET b == Append(batch, lines[i])
         IN  IF Len(b) > batch_size
             THEN IF Len(batches) + 1 = failAt
                  THEN [ok |-> FALSE, total |-> 0, batches |-> Append(batches, b)]
                  ELSE ReadBatchLoopOver(lines, i + 1, <<>>, Append(batches, b),
                                         total + Len(b), batch_size, failAt)
             ELSE ReadBatchLoopOver(lines, i + 1, b, batches, total, batch_size, failAt)

\* the loop of read_lines_batched from the i-th line on, then the remaining
\* batch.  process_batch returns Err on its failAt-th call (never if 0), and
\* `?` returns that error at once
RECURSIVE ReadBatchLoop(_, _, _, _, _, _, _)
ReadBatchLoop(lines, i, batch, batches, total, batch_size, failAt) ==
    IF i > Len(lines)
    THEN IF batch = <<>> THEN [ok |-> TRUE, total |-> total, batches |-> batches]
         ELSE IF Len(batches) + 1 = failAt
         THEN [ok |-> FALSE, total |-> 0, batches |-> Append(batches, batch)]
         ELSE [ok |-> TRUE, total |-> total + Len(batch), batches |-> Append(batches, batch)]
    ELSE LET b == Append(batch, lines[i])
         IN  IF Len(b) >= batch_size
             THEN IF Len(batches) + 1 = failAt
                  THEN [ok |-> FALSE, total |-> 0, batches |-> Append(batches, b)]
                  ELSE ReadBatchLoop(lines, i + 1, <<>>, Append(batches, b),
                                     total + Len(b), batch_size, failAt)
             ELSE ReadBatchLoop(lines, i + 1, b, batches, total, batch_size, failAt)

\* read_lines_batched: File::open fails on a missing file
ReadLinesBatched(file, batch_size, failAt) ==
    IF file = <<>> THEN [ok |-> FALSE, total |-> 0, batches |-> <<>>]
    ELSE ReadBatchLoop(BufReadLines(file[1]), 1, <<>>, <<>>, 0, batch_size, failAt)

\* vectors of lines given to the writers (no line holds a "\n")
LineVecs ==
    { <<>>, <<"a">>, <<"">>, <<"a", "b">>, <<"b\r", "c d">>, <<"a", "", "x\ry">> }

(***************************************************************************)
(* Calls of write_lines on one path, then read_lines.                      *)
(***************************************************************************)
InitFs ==
    /\ os = "linux"
    /\ PingAtRest
    /\ rtText = ""
    /\ rtTable = <<>>
    /\ rtPc = "off"
    /\ TableAtRest
    /\ ClassifierAtRest
    /\ LibAtRest

WriteLinesCall ==
    /\ fsRead = <<>>
    /\ Len(fsLog) < MaxCalls
    /\ \E lines \in LineVecs, create \in BOOLEAN :
          /\ fsFile' = WriteLines(fsFile, lines, create)
          /\ fsLog' = Append(fsLog, [lines |-> lines, create |-> create])
    /\ UNCHANGED <<fsRead, fsPrev, fsCall, fsRet, fsBatches, pingVars, routeVars,
                   protoVars, atomicVars, syncallVars>>

ReadLinesCall ==
    /\ fsRead = <<>>
    /\ fsRead' = <<ReadLines(fsFile)>>
    /\ UNCHANGED <<fsFile, fsLog, fsPrev, fsCall, fsRet, fsBatches, pingVars, routeVars,
                   protoVars, atomicVars, syncallVars>>

NextFs == WriteLinesCall \/ ReadLinesCall

SpecFs == InitFs /\ [][NextFs]_vars

(***************************************************************************)
(* The batched calls: write_lines_batched on a file that may exist, then   *)
(* read_lines_batched.                                                     *)
(***************************************************************************)
\* files as other programs leave them: the last line without its "\n"
FilesAtStart ==
    {<<>>, <<"x\ny">>} \cup { <<LinesBytes(v)>> : v \in LineVecs }

InitBatch ==
    /\ os = "linux"
    /\ PingAtRest
    /\ rtText = ""
    /\ rtTable = <<>>
    /\ rtPc = "off"
    /\ TableAtRest
    /\ ClassifierAtRest
    /\ fsFile \in FilesAtStart
    /\ fsLog = <<>>
    /\ fsRead = <<>>
    /\ fsPrev = <<>>
    /\ fsCall = <<>>
    /\ fsRet = <<>>
    /\ fsBatches = <<>>
    /\ ProtoAtRest
    /\ AtomicAtRest
    /\ SyncallAtRest

WriteLinesBatchedCall ==
    /\ fsCall = <<>>
    /\ \E lines \in LineVecs, batch_size \in 0..MaxBatch, create \in BOOLEAN :
          LET w == WriteLinesBatched(fsFile, lines, batch_size, create)
          IN  /\ fsFile' = w.file
              /\ fsRet' = <<[ok |-> TRUE, total |-> w.total]>>
              /\ fsCall' = <<[op |-> "write_lines_batched", lines |-> lines,
                              batch_size |-> batch_size, create |-> create, failAt |-> 0]>>
    /\ fsPrev' = <<fsFile>>
    /\ UNCHANGED <<fsLog, fsRead, fsBatches, pingVars, routeVars,
                   protoVars, atomicVars, syncallVars>>

ReadLinesBatchedCall ==
    /\ \A i \in DOMAIN fsCall : fsCall[i].op = "write_lines_batched"
    /\ \E batch_size \in 0..MaxBatch, failAt \in 0..MaxBatch :
          LET r == ReadLinesBatched(fsFile, batch_size, failAt)
          IN  /\ fsRet' = <<[ok |-> r.ok, total |-> r.total]>>
              /\ fsBatches' = r.batches
              /\ fsCall' = <<[op |-> "read_lines_batched", lines |-> <<>>,
                              batch_size |-> batch_size, create |-> FALSE,
                              failAt |-> failAt]>>
    /\ fsPrev' = <<fsFile>>
    /\ UNCHANGED <<fsFile, fsLog, fsRead, pingVars, routeVars,
                   protoVars, atomicVars, syncallVars>>

NextBatch == WriteLinesBatchedCall \/ ReadLinesBatchedCall

SpecBatch == InitBatch /\ [][NextBatch]_vars

(***************************************************************************)
(* The request envelope (src/src/proto.rs): Request::validate.  An         *)
(* Option is <<>> for None and <<v>> for Some(v).                          *)
(***************************************************************************)
RequestHeader(version, action, sign, timestamp, sender) ==
    [version |-> version, action |-> action, sign |-> sign,
     timestamp |-> timestamp, sender |-> sender]

Request(head, body) == [head |-> head, body |-> body]

\* anyhow!("sign data is required！"): the text ends in the fullwidth
\* exclamation mark U+FF01, written here by its escape
SignRequired == "sign data is required\\uff01"

\* mutant of Validate: an empty signature is refused as well
ValidateNonEmpty(req) ==
    IF req.head = <<>> \/ req.head[1].sign = <<>> \/ req.head[1].sign = <<"">>
    THEN [ok |-> FALSE, msg |-> SignRequired]
    ELSE [ok |-> TRUE, msg |-> ""]

\* Request::validate(&self)
Validate(req) ==
    IF req.head = <<>> \/ req.head[1].sign = <<>>
    THEN [ok |-> FALSE, msg |-> SignRequired]
    ELSE [ok |-> TRUE, msg |-> ""]

Signs == {<<>>, <<"">>, <<"   ">>, <<"valid_signature">>}

OptionalTexts == {<<>>, <<"1">>}

RequestHeaders ==
    { RequestHeader(v, a, sg, t, sd) :
        v \in OptionalTexts, a \in OptionalTexts, sg \in Signs,
        t \in OptionalTexts, sd \in OptionalTexts }

Requests ==
    { Request(h, b) : h \in {<<>>} \cup { <<x>> : x \in RequestHeaders },
                      b \in {<<>>, <<1>>} }

InitProto ==
    /\ os = "linux"
    /\ PingAtRest
    /\ rtText = ""
    /\ rtTable = <<>>
    /\ rtPc = "off"
    /\ TableAtRest
    /\ ClassifierAtRest
    /\ FsAtRest
    /\ AtomicAtRest
    /\ SyncallAtRest
    /\ reqVal \in Requests
    /\ reqRet = <<>>

\* validate borrows the request shared: it is the same after the call
ValidateCall ==
    /\ reqRet = <<>>
    /\ reqRet' = <<Validate(reqVal)>>
    /\ UNCHANGED <<reqVal, pingVars, routeVars, fsVars, atomicVars, syncallVars>>

NextProto == ValidateCall

SpecProto == InitProto /\ [][NextProto]_vars

(***************************************************************************)
(* The borrow-retry macros (src/src/syncall.rs): atomic_call,              *)
(* atomic_call_arg1..arg4 (try_borrow_mut) and atomic_call_imt             *)
(* (try_borrow), one invocation per thread, all on the same AtomicRefCell. *)
(* The cell is [writer, readers]: the thread holding the mutable borrow    *)
(* (0 for none) and the threads holding shared borrows.                    *)
(***************************************************************************)
NThreads == 2

Threads == 1..NThreads

\* let mut retry = 3
Retries == 3

\* mutant of CanBorrowMut: shared borrows do not stand in the way
CanBorrowMutAmongReaders(cell) == cell.writer = 0

\* AtomicRefCell::try_borrow_mut is Ok
CanBorrowMut(cell) == cell.writer = 0 /\ cell.readers = {}

\* AtomicRefCell::try_borrow is Ok
CanBorrow(cell) == cell.writer = 0

\* mutant of AfterSuccess: the counter is counted down as after a failure
AfterSuccessCountDown(retry) == retry - 1

\* retry = 0 in the Ok arm
AfterSuccess(retry) == 0

InitAtomic ==
    /\ os = "linux"
    /\ PingAtRest
    /\ rtText = ""
    /\ rtTable = <<>>
    /\ rtPc = "off"
    /\ TableAtRest
    /\ ClassifierAtRest
    /\ FsAtRest
    /\ ProtoAtRest
    /\ SyncallAtRest
    /\ acKind \in [Threads -> {"mut", "imt"}]
    /\ acPc = [t \in Threads |-> "loop"]
    /\ acRetry = [t \in Threads |-> Retries]
    /\ acTries = [t \in Threads |-> 0]
    /\ acCalls = [t \in Threads |-> 0]
    /\ acR = [t \in Threads |-> "before"]
    /\ acBorrow = [writer |-> 0, readers |-> {}]

\* `while retry > 0` and the match on try_borrow_mut() / try_borrow(): on Ok
\* the thread holds the borrow and enters the target method, on Err it
\* counts down
TryBorrow(t) ==
    /\ acPc[t] = "loop"
    /\ acRetry[t] > 0
    /\ acTries' = [acTries EXCEPT ![t] = @ + 1]
    /\ IF acKind[t] = "mut"
       THEN IF CanBorrowMut(acBorrow)
            THEN /\ acBorrow' = [acBorrow EXCEPT !.writer = t]
                 /\ acPc' = [acPc EXCEPT ![t] = "method"]
                 /\ acCalls' = [acCalls EXCEPT ![t] = @ + 1]
                 /\ UNCHANGED acRetry
            ELSE /\ acRetry' = [acRetry EXCEPT ![t] = @ - 1]
                 /\ UNCHANGED <<acBorrow, acPc, acCalls>>
       ELSE IF CanBorrow(acBorrow)
            THEN /\ acBorrow' = [acBorrow EXCEPT !.readers = @ \cup {t}]
                 /\ acPc' = [acPc EXCEPT ![t] = "method"]
                 /\ acCalls' = [acCalls EXCEPT ![t] = @ + 1]
                 /\ UNCHANGED acRetry
            ELSE /\ acRetry' = [acRetry EXCEPT ![t] = @ - 1]
                 /\ UNCHANGED <<acBorrow, acPc, acCalls>>
    /\ UNCHANGED <<acKind, acR, pingVars, routeVars, fsVars, protoVars, syncallVars>>

\* the method returns: $r = v.method(..), retry = 0, and the borrow ends
\* with the match arm
MethodReturn(t) ==
    /\ acPc[t] = "method"
    /\ acR' = [acR EXCEPT ![t] = "result"]
    /\ acRetry' = [acRetry EXCEPT ![t] = AfterSuccess(@)]
    /\ acBorrow' = IF acKind[t] = "mut"
                   THEN [acBorrow EXCEPT !.writer = 0]
                   ELSE [acBorrow EXCEPT !.readers = @ \ {t}]
    /\ acPc' = [acPc EXCEPT ![t] = "loop"]
    /\ UNCHANGED <<acKind, acTries, acCalls, pingVars, routeVars, fsVars, protoVars,
                   syncallVars>>

\* `while retry > 0` is false: the macro is over
LoopExit(t) ==
    /\ acPc[t] = "loop"
    /\ acRetry[t] = 0
    /\ acPc' = [acPc EXCEPT ![t] = "done"]
    /\ UNCHANGED <<acKind, acRetry, acTries, acCalls, acR, acBorrow,
                   pingVars, routeVars, fsVars, protoVars, syncallVars>>

ThreadStep(t) == TryBorrow(t) \/ MethodReturn(t) \/ LoopExit(t)

NextAtomic == \E t \in Threads : ThreadStep(t)

\* every thread is scheduled again and again, and a target method returns
SpecAtomic ==
    InitAtomic /\ [][NextAtomic]_vars /\ \A t \in Threads : WF_vars(ThreadStep(t))

(***************************************************************************)
(* The retry-until-timeout macros (src/src/syncall.rs):                    *)
(* syncall_with_timeout and syncall_with_signal_timeout.  The clock is     *)
(* tm_start.elapsed().as_secs(); whole seconds pass while the action runs  *)
(* and while the thread sleeps.  An attempt's result is [ok, n], n the     *)
(* number of the attempt; the value the result variable has before the     *)
(* macro has n = 0.                                                        *)
(***************************************************************************)
MaxTimeout == 2

MaxTries == 3

\* the clock stops one second past the largest timeout: every loop test
\* after that is the same
ClockAdd(e, d) == IF e + d > MaxTimeout + 1 THEN MaxTimeout + 1 ELSE e + d

\* mutant of AfterFailure: the failed result is stored
AfterFailureStored(r, attempt) == attempt

\* syncall_with_timeout, ret is not Ok: `continue`, $r is not assigned
AfterFailure(r, attempt) == r

\* mutant of ExitNow: the exit flag is not looked at
ExitNowOnOk(r, exit_flag) == r.ok

\* syncall_with_signal_timeout: if $r.is_ok() || exit_flag { break }
ExitNow(r, exit_flag) == r.ok \/ exit_flag

ResultsBefore == {[ok |-> TRUE, n |-> 0], [ok |-> FALSE, n |-> 0]}

SyncallRest ==
    /\ os = "linux"
    /\ PingAtRest
    /\ rtText = ""
    /\ rtTable = <<>>
    /\ rtPc = "off"
    /\ TableAtRest
    /\ ClassifierAtRest
    /\ FsAtRest
    /\ ProtoAtRest
    /\ AtomicAtRest

\* let tm_start = Instant::now() of syncall_with_timeout
InitTimeout ==
    /\ SyncallRest
    /\ syPc = "test"
    /\ syR \in ResultsBefore
    /\ syElapsed = 0
    /\ syTimeout \in 0..MaxTimeout
    /\ syInterval = 0
    /\ syTries = 0
    /\ syFlag = FALSE
    /\ sySignal = "none"
    /\ sySince = 0

\* while tm_start.elapsed().as_secs() <= $t: the next attempt starts, or the
\* loop is over
LoopTest ==
    /\ syPc = "test"
    /\ IF syElapsed <= syTimeout
       THEN /\ syTries < MaxTries
            /\ syPc' = "action"
            /\ syTries' = syTries + 1
            /\ sySince' = IF sySignal = "after" THEN sySince + 1 ELSE sySince
       ELSE /\ syPc' = "exit"
            /\ UNCHANGED <<syTries, sySince>>
    /\ UNCHANGED <<syR, syElapsed, syTimeout, syInterval, syFlag, sySignal,
                   pingVars, routeVars, fsVars, protoVars, atomicVars>>

\* a second passes while the action runs or the thread sleeps
Tick ==
    /\ syPc \in {"action", "sleep"}
    /\ syElapsed <= MaxTimeout
    /\ syElapsed' = ClockAdd(syElapsed, 1)
    /\ UNCHANGED <<syPc, syR, syTimeout, syInterval, syTries, syFlag, sySignal, sySince,
                   pingVars, routeVars, fsVars, protoVars, atomicVars>>

\* syncall_with_timeout: let ret = $e; Ok is stored and ends the loop
TimeoutActionReturn ==
    /\ syPc = "action"
    /\ \E ok \in BOOLEAN :
          LET attempt == [ok |-> ok, n |-> syTries]
          IN  IF ok
              THEN /\ syR' = attempt
                   /\ syPc' = "exit"
              ELSE /\ syR' = AfterFailure(syR, attempt)
                   /\ syPc' = "test"
    /\ UNCHANGED <<syElapsed, syTimeout, syInterval, syTries, syFlag, sySignal, sySince,
                   pingVars, routeVars, fsVars, protoVars, atomicVars>>

NextTimeout == LoopTest \/ Tick \/ TimeoutActionReturn

SpecTimeout == InitTimeout /\ [][NextTimeout]_vars

\* syncall_with_signal_timeout before its first statement; the flag is what
\* earlier code left in it
InitSignal ==
    /\ SyncallRest
    /\ syPc = "reset"
    /\ syR \in ResultsBefore
    /\ syElapsed = 0
    /\ syTimeout \in 0..MaxTimeout
    /\ syInterval \in {0, 1}
    /\ syTries = 0
    /\ syFlag \in BOOLEAN
    /\ sySignal = "none"
    /\ sySince = 0

\* *value = false under the lock, then tm_start = Instant::now()
ResetFlag ==
    /\ syPc = "reset"
    /\ syFlag' = FALSE
    /\ syElapsed' = 0
    /\ syPc' = "test"
    /\ UNCHANGED <<syR, syTimeout, syInterval, syTries, sySignal, sySince,
                   pingVars, routeVars, fsVars, protoVars, atomicVars>>

\* another thread sets the flag to true under the lock: once before the
\* reset at most, once after it at most
RaiseSignal ==
    /\ syPc # "exit"
    /\ sySignal # "after"
    /\ syPc = "reset" => sySignal = "none"
    /\ syFlag' = TRUE
    /\ sySignal' = IF syPc = "reset" THEN "before" ELSE "after"
    /\ sySince' = 0
    /\ UNCHANGED <<syPc, syR, syElapsed, syTimeout, syInterval, syTries,
                   pingVars, routeVars, fsVars, protoVars, atomicVars>>

\* $r = $e
SignalActionReturn ==
    /\ syPc = "action"
    /\ \E ok \in BOOLEAN : syR' = [ok |-> ok, n |-> syTries]
    /\ syPc' = "read"
    /\ UNCHANGED <<syElapsed, syTimeout, syInterval, syTries, syFlag, sySignal, sySince,
                   pingVars, routeVars, fsVars, protoVars, atomicVars>>

\* exit_flag = *lock, then the break or the sleep
ReadFlag ==
    /\ syPc = "read"
    /\ syPc' = IF ExitNow(syR, syFlag) THEN "exit" ELSE "sleep"
    /\ UNCHANGED <<syR, syElapsed, syTimeout, syInterval, syTries, syFlag, sySignal, sySince,
                   pingVars, routeVars, fsVars, protoVars, atomicVars>>

\* thread::sleep(Duration::from_secs($v)) is over
SleepEnd ==
    /\ syPc = "sleep"
    /\ syElapsed' = ClockAdd(syElapsed, syInterval)
    /\ syPc' = "test"
    /\ UNCHANGED <<syR, syTimeout, syInterval, syTries, syFlag, sySignal, sySince,
                   pingVars, routeVars, fsVars, protoVars, atomicVars>>

NextSignal ==
    ResetFlag \/ RaiseSignal \/ LoopTest \/ Tick \/ SignalActionReturn \/ ReadFlag \/ SleepEnd

SpecSignal == InitSignal /\ [][NextSignal]_vars

(***************************************************************************)
(* What the properties below speak of                                      *)
(***************************************************************************)
\* the outermost call has ended, by a return or by a panic
Done == ret.kind # "none"

Returned(r) == ret = r

\* a command ran and both its streams decoded
IsText(o) == o # <<>> /\ o[1].spawn /\ o[1].outUtf8 /\ o[1].errUtf8

\* no success line in stdout and empty stderr
IsAmbiguous(o) == IsText(o) /\ ~HasSuccessLine(o[1].stdout) /\ o[1].stderr = ""

\* no success line in stdout and text in stderr
IsHardFailure(o) == IsText(o) /\ ~HasSuccessLine(o[1].stdout) /\ o[1].stderr # ""

\* the diagnosis got its route table
DiagTableBuilt == routeTable # <<>>

DiagTable == routeTable[1]

\* the diagnosis ended the call with Err(m) without a gateway probe
DiagnosedAs(m) ==
    /\ gwOut = <<>> /\ gwRet = <<>>
    /\ \/ Len(stack) = 1 /\ stack[1].pc = "ret" /\ stack[1].res = Err(m)
       \/ stack = <<>> /\ ret = Err(m)

\* the diagnosis went on to the gateway probe
GatewayProbed == Len(stack) = 2 \/ gwRet # <<>>

(***************************************************************************)
(* C1: an ambiguous host probe with diagnostics, a route found and a       *)
(* gateway probe that succeeds still ends in a failure for ping's caller.  *)
(***************************************************************************)
C1_GatewayUpStillFails ==
    (Done /\ call[1].diag /\ IsAmbiguous(hostOut) /\ gwRet # <<>> /\ gwRet[1].kind = "ok")
        => ret.kind = "err"

(***************************************************************************)
(* C2: the diagnosis applies its checks in a fixed order, the first that   *)
(* applies decides: nLinkUp = 0 gives NoLinkUp, otherwise nGatewayCount =  *)
(* 0 gives NoGateway, otherwise no route found gives NoRoute, and only     *)
(* otherwise is the gateway probed.                                        *)
(***************************************************************************)
C2_DiagnosisOrder ==
    DiagTableBuilt =>
        LET routeInfo == Parse(DiagTable)
            route     == FindRoute(DiagTable, call[1].host)
        IN  /\ routeInfo.nLinkUp = 0 => DiagnosedAs("NoLinkUp")
            /\ (routeInfo.nLinkUp # 0 /\ routeInfo.nGatewayCount = 0)
                  => DiagnosedAs("NoGateway")
            /\ (routeInfo.nLinkUp # 0 /\ routeInfo.nGatewayCount # 0 /\ route = <<>>)
                  => DiagnosedAs("NoRoute")
            /\ (routeInfo.nLinkUp # 0 /\ routeInfo.nGatewayCount # 0 /\ route # <<>>)
                  => GatewayProbed
            /\ DiagTable = <<>> => DiagnosedAs("NoLinkUp")

\* a table with a link up, no gateway and no default route: NoGateway, not NoRoute
C2_Witness ==
    /\ DiagTableBuilt
    /\ Returned(Err("NoGateway"))
    /\ Parse(DiagTable).nLinkUp # 0
    /\ FindRoute(DiagTable, call[1].host) = <<>>

(***************************************************************************)
(* C3: no ping call ends in a panic: every failure of an external step is  *)
(* returned to the caller as an error value.                               *)
(***************************************************************************)
C3_NoPanic == ret.kind # "panic"

(***************************************************************************)
(* C4: whenever stdout of the host probe has a line with `icmp_seq=`       *)
(* (macOS: a line with `time=`), ping returns Success with a non-negative  *)
(* duration.                                                               *)
(***************************************************************************)
C4_SuccessLine(sOutput) ==
    IF os = "linux" THEN Contains(sOutput, "icmp_seq=") ELSE Contains(sOutput, "time=")

C4_SuccessLineGivesSuccess ==
    (Done /\ IsText(hostOut) /\ C4_SuccessLine(hostOut[1].stdout))
        => (ret.kind = "ok" /\ F32NonNegative(ret.duration))

(***************************************************************************)
(* C5: a host probe with no success line in stdout and a non-empty stderr  *)
(* fails with exactly the stderr text.                                     *)
(***************************************************************************)
C5_StderrVerbatim ==
    (Done /\ IsHardFailure(hostOut)) => Returned(Err(hostOut[1].stderr))

\* C5 as amended: exactly the stderr text, except that the Linux backend
\* gives exactly "ping: unknown host" for a stderr that contains these words
C5_StderrVerbatimButUnknownHost ==
    (Done /\ IsHardFailure(hostOut)) =>
        IF os = "linux" /\ Contains(hostOut[1].stderr, "ping: unknown host")
        THEN Returned(Err("ping: unknown host"))
        ELSE Returned(Err(hostOut[1].stderr))

C5_Witness ==
    /\ Done /\ IsHardFailure(hostOut)
    /\ os = "linux"
    /\ hostOut[1].stderr = "ping: connect: Network is unreachable\n"
    /\ ret.msg = hostOut[1].stderr

(***************************************************************************)
(* C6: ping returns GatewayNotReachable exactly when the diagnosis reached *)
(* the gateway probe and that probe failed, whatever its failure was, and  *)
(* never passes on the nested probe's own error text.                      *)
(***************************************************************************)
C6_GatewayNotReachable ==
    Done => (Returned(Err("GatewayNotReachable"))
                <=> (gwRet # <<>> /\ gwRet[1].kind = "err"))

\* the nested probe failed with a stderr text of its own
C6_Witness ==
    /\ Done
    /\ gwRet # <<>> /\ gwRet[1].kind = "err" /\ gwRet[1].msg = gwOut[1].stderr
    /\ gwOut[1].stderr # ""
    /\ Returned(Err("GatewayNotReachable"))

(***************************************************************************)
(* C7: a ping call issues at most two ping commands and at most one        *)
(* route-table command and never stops short of its end; the nested probe  *)
(* runs with diagnostics disabled, so nothing is nested in it.             *)
(***************************************************************************)
C7_TwoPingsOneRoute ==
    /\ nPing <= 2
    /\ nRoute <= 1
    /\ Len(stack) <= 2
    /\ \A i \in 2..Len(stack) : ~stack[i].diag
    /\ (call # <<>> /\ ~Done) => ENABLED Next

C7_Witness == Done /\ nPing = 2 /\ nRoute = 1 /\ call[1].diag

(***************************************************************************)
(* C8: a probe with diagnostics disabled, no success line and an empty     *)
(* stderr fails with NoErrData, runs no route-table command and no         *)
(* further probe.                                                          *)
(***************************************************************************)
C8_NoDiagNoErrData ==
    /\ (Done /\ ~call[1].diag /\ IsAmbiguous(hostOut))
          => (Returned(Err("NoErrData")) /\ nPing = 1 /\ nRoute = 0)
    /\ (gwRet # <<>> /\ IsAmbiguous(gwOut))
          => (gwRet[1] = Err("NoErrData") /\ nPing = 2 /\ nRoute = 1)

C8_Witness ==
    /\ Done /\ ~call[1].diag /\ IsAmbiguous(hostOut)
    /\ Returned(Err("NoErrData"))

(***************************************************************************)
(* C9: the table of the Linux route parser holds no record whose           *)
(* destination is "local", "multicast" or "broadcast".                     *)
(***************************************************************************)
C9_NoExcludedDest ==
    \A i \in DOMAIN rtTable : rtTable[i].Dest \notin {"local", "multicast", "broadcast"}

\* a `local` line of more than 4 tokens beside a line that gives a record
C9_Witness ==
    /\ rtPc = "done"
    /\ Contains(rtText, "local 127.0.0.1 dev lo table local")
    /\ Len(rtTable) = 1

(***************************************************************************)
(* C10: the table of the Linux route parser holds no record whose device   *)
(* name starts with "dummy", whichever `dev` token set the device.         *)
(***************************************************************************)
C10_NoDummyDev ==
    \A i \in DOMAIN rtTable : ~StartsWith(rtTable[i].Dev, "dummy")

\* the `dev` at token position 1 names a dummy device, a later `dev` does not
C10_Witness ==
    /\ rtPc = "done"
    /\ rtText = "default dev dummy0 dev eth0\n"
    /\ rtTable = <<>>

(***************************************************************************)
(* C11: the table of the macOS backend holds no record with destination    *)
(* "local", "multicast" or "broadcast" and none whose device name begins   *)
(* with "dummy".                                                           *)
(***************************************************************************)
C11_MacTableInvariants ==
    os = "macos" =>
        \A i \in DOMAIN rtTable :
            /\ rtTable[i].Dest \notin {"local", "multicast", "broadcast"}
            /\ ~StartsWith(rtTable[i].Dev, "dummy")

(***************************************************************************)
(* C12: the default-route line followed by `10.0.0.0/24 dev eth1 linkdown` *)
(* parses to a table of exactly 2 records, and Parse gives nLinkUp = 1.    *)
(***************************************************************************)
C12_LinkdownScenario ==
    (rtPc = "done" /\ rtText = ScenarioLinkdown)
        => (Len(rtTable) = 2 /\ Parse(rtTable).nLinkUp = 1)

\* C12 as amended: the second line has 4 tokens, which is not more than 4, so
\* the table is the default route alone
C12_LinkdownScenarioOneRecord ==
    (rtPc = "done" /\ rtText = ScenarioLinkdown) =>
        /\ Len(rtTable) = 1
        /\ rtTable[1].Dest = "default"
        /\ Parse(rtTable).nLinkUp = 1

C12_Witness ==
    /\ rtPc = "done" /\ rtText = ScenarioLinkdown
    /\ Len(Split(Split(rtText, "\n")[2], " ")) = 4
    /\ rtTable # <<>>

(***************************************************************************)
(* C13: the line `default via 192.168.1.1 dev eth0 proto static` parses to *)
(* exactly one record, Dest "default", Dev "eth0", Gateway "192.168.1.1",  *)
(* Src and State empty, and Parse on it gives bHasGateway,                 *)
(* bHasDefaultGateway, nGatewayCount = nDefaultGatewayCount = nLinkUp = 1. *)
(***************************************************************************)
C13_DefaultScenario ==
    (rtPc = "done" /\ rtText = ScenarioDefault) =>
        /\ rtTable = <<[Dest |-> "default", Dev |-> "eth0", Gateway |-> "192.168.1.1",
                        Src |-> "", State |-> ""]>>
        /\ Parse(rtTable) =
              [bHasGateway |-> TRUE, bHasDefaultGateway |-> TRUE, nGatewayCount |-> 1,
               nDefaultGatewayCount |-> 1, nLinkUp |-> 1]

C13_Witness == rtPc = "done" /\ rtText = ScenarioDefault /\ Len(rtTable) = 1

(***************************************************************************)
(* C14: the Linux parser consumes the tokens of a line as flag/value       *)
(* pairs: the token after `dev`, `src` or `via` is a value and is not read *)
(* as a flag, so it sets no other field.                                   *)
(***************************************************************************)
\* the scan that steps over the value of a flag
RECURSIVE C14_PairScan(_, _, _)
C14_PairScan(items, pos, route) ==
    IF pos >= Len(items) THEN route
    ELSE C14_PairScan(items,
                      IF GetOr(items, pos) \in {"dev", "src", "via"} THEN pos + 2
                      ELSE pos + 1,
                      ScanFlag(items, pos, route))

C14_PairLine(line) ==
    LET items == Split(line, " ")
        dst   == GetOr(items, 0)
    IN  IF Len(items) > 4 /\ ~IsExcludedDest(dst)
        THEN FinishRoute(items, C14_PairScan(items, 0, [NetRouteDefault EXCEPT !.Dest = dst]))
        ELSE <<>>

RECURSIVE C14_PairRoutesOf(_, _)
C14_PairRoutesOf(lines, i) ==
    IF i > Len(lines) THEN <<>>
    ELSE C14_PairLine(lines[i]) \o C14_PairRoutesOf(lines, i + 1)

C14_FlagValuePairs ==
    rtPc = "done" => rtTable = C14_PairRoutesOf(Split(rtText, "\n"), 1)

(***************************************************************************)
(* C15: a line of at most 4 tokens gives no record; a line whose last      *)
(* token is `dev`, `src` or `via` gives a record with that field empty; a  *)
(* line that gives no record leaves the records of the other lines as      *)
(* they are.                                                               *)
(***************************************************************************)
C15_Lines == Split(rtText, "\n")

\* the text is one line, with or without its newline
C15_OneLine ==
    Len(C15_Lines) = 1 \/ (Len(C15_Lines) = 2 /\ C15_Lines[2] = "")

C15_Items == Split(C15_Lines[1], " ")

C15_Last == C15_Items[Len(C15_Items)]

C15_Without(lines, k) == SubSeq(lines, 1, k - 1) \o SubSeq(lines, k + 1, Len(lines))

C15_ShortAndSkipped ==
    /\ (rtPc = "done" /\ C15_OneLine /\ Len(C15_Items) <= 4) => rtTable = <<>>
    /\ rtPc = "done" =>
          \A k \in DOMAIN C15_Lines :
              LinuxRouteLine(C15_Lines[k]) = <<>>
                  => rtTable = LinuxRoutesOf(C15_Without(C15_Lines, k), 1)

C15_TrailingFlag ==
    /\ C15_ShortAndSkipped
    /\ (rtPc = "done" /\ C15_OneLine /\ rtTable # <<>>) =>
          /\ C15_Last = "dev" => rtTable[1].Dev = ""
          /\ C15_Last = "src" => rtTable[1].Src = ""
          /\ C15_Last = "via" => rtTable[1].Gateway = ""

\* C15 as amended: with `dev` at token position 1 the device is the token at
\* position 2, whatever a trailing `dev` did
C15_TrailingFlagButDevAt1 ==
    /\ C15_ShortAndSkipped
    /\ (rtPc = "done" /\ C15_OneLine /\ rtTable # <<>>) =>
          /\ C15_Last = "dev" =>
                rtTable[1].Dev = IF GetOr(C15_Items, 1) = "dev"
                                 THEN GetOr(C15_Items, 2) ELSE ""
          /\ C15_Last = "src" => rtTable[1].Src = ""
          /\ C15_Last = "via" => rtTable[1].Gateway = ""

\* a trailing `dev` after a device was named: the record's device is empty
C15_Witness ==
    /\ rtPc = "done" /\ C15_OneLine
    /\ Len(C15_Items) = 5
    /\ GetOr(C15_Items, 2) = "dev" /\ C15_Last = "dev"
    /\ Len(rtTable) = 1 /\ rtTable[1].Dev = ""

(***************************************************************************)
(* C16: the records of a table stand in the order of the output lines      *)
(* they were parsed from, and a line gives at most one record.             *)
(***************************************************************************)
C16_RouteLine(line) == IF os = "linux" THEN LinuxRouteLine(line) ELSE MacRouteLine(line)

\* the table is the records of the lines that give one, the i-th record
\* from the i-th such line
C16_InOrder(recs) ==
    LET yielding  == {j \in DOMAIN recs : recs[j] # <<>>}
        lineOf(i) == CHOOSE j \in yielding : Cardinality({k \in yielding : k < j}) = i - 1
    IN  /\ \A j \in DOMAIN recs : Len(recs[j]) <= 1
        /\ Len(rtTable) = Cardinality(yielding)
        /\ \A i \in DOMAIN rtTable : rtTable[i] = recs[lineOf(i)][1]

C16_OutputOrder ==
    rtPc = "built" =>
        LET lines == Split(rtText, "\n")
        IN  C16_InOrder([j \in DOMAIN lines |-> C16_RouteLine(lines[j])])

\* two lines that give different records, around nothing or a skipped line
C16_Witness ==
    /\ rtPc = "built"
    /\ os = "linux"
    /\ Len(rtTable) = 2
    /\ rtTable[1].Dest = "10.1.0.0/16" /\ rtTable[2].Dest = "default"

(***************************************************************************)
(* C19: Parse on an empty table gives bHasGateway = false,                 *)
(* bHasDefaultGateway = false and all three counters 0.                    *)
(***************************************************************************)
C19_EmptyTable ==
    (rtInfo # <<>> /\ rtTable = <<>>) =>
        rtInfo[1] = [bHasGateway |-> FALSE, bHasDefaultGateway |-> FALSE,
                     nLinkUp |-> 0, nGatewayCount |-> 0, nDefaultGatewayCount |-> 0]

C19_Witness == rtInfo # <<>> /\ rtTable = <<>> /\ rtText = ""

(***************************************************************************)
(* C20: FindRoute returns the first record in table order whose Dest is    *)
(* "0.0.0.0/0" or "default", none exactly when there is no such record,    *)
(* never a record of another destination, whatever the ip.                 *)
(***************************************************************************)
C20_Defaults == {i \in DOMAIN rtTable : rtTable[i].Dest \in {"0.0.0.0/0", "default"}}

C20_FirstDefault ==
    rtFound # <<>> =>
        /\ C20_Defaults = {} <=> rtFound[1].route = <<>>
        /\ C20_Defaults # {} =>
              \E i \in C20_Defaults :
                  /\ \A j \in C20_Defaults : i <= j
                  /\ rtFound[1].route = <<rtTable[i]>>

\* an ip of a subnet the table has a route for, which comes before the
\* default route found
C20_Witness ==
    /\ rtFound # <<>>
    /\ rtFound[1].ip = "10.0.0.7"
    /\ Len(rtTable) = 2
    /\ rtTable[1].Dest = "10.0.0.0/24"
    /\ rtFound[1].route = <<rtTable[2]>>

(***************************************************************************)
(* C17: for every table Parse returns nLinkUp = the number of records      *)
(* whose State is not "linkdown", nGatewayCount = the number with a        *)
(* non-empty Gateway, nDefaultGatewayCount = the number with a non-empty   *)
(* Gateway whose Dest contains "0.0.0.0" or is "default", and the two      *)
(* flags true exactly when their counter's records exist.                  *)
(***************************************************************************)
C17_Up == {i \in 1..clsLen : ClsRecord(i).State # "linkdown"}

C17_Gateways == {i \in 1..clsLen : ClsRecord(i).Gateway # ""}

C17_DefaultGateways ==
    {i \in C17_Gateways :
        Contains(ClsRecord(i).Dest, "0.0.0.0") \/ ClsRecord(i).Dest = "default"}

C17_ParseCounts ==
    clsPc = "done" =>
        /\ clsInfo.nLinkUp = Cardinality(C17_Up)
        /\ clsInfo.nGatewayCount = Cardinality(C17_Gateways)
        /\ clsInfo.nDefaultGatewayCount = Cardinality(C17_DefaultGateways)
        /\ clsInfo.bHasGateway <=> C17_Gateways # {}
        /\ clsInfo.bHasDefaultGateway <=> C17_DefaultGateways # {}

(***************************************************************************)
(* C18: Parse has no failure mode and its counters do not overflow: it     *)
(* returns for every table, of more than 255 records too, with counters    *)
(* that were never wrapped.                                                *)
(***************************************************************************)
C18_NoOverflow ==
    /\ clsPc # "panic"
    /\ \A i \in 1..clsLen :
          (clsPc = "loop" /\ clsPos = i - 1) => ~StepOverflows(clsInfo, ClsRecord(i))

(***************************************************************************)
(* C25: whenever the diagnosis reaches the gateway probe, the address it   *)
(* probes is a non-empty gateway address: the route FindRoute returned     *)
(* has a gateway.                                                          *)
(***************************************************************************)
C25_GatewayProbedHasAddress ==
    Len(stack) = 2 => stack[2].host # ""

(***************************************************************************)
(* C30: on macOS every record of a parsed table has a non-empty Gateway,   *)
(* so nGatewayCount is the number of records (below 256 of them) and an    *)
(* ambiguous ping failure with diagnostics is never reported as NoGateway. *)
(***************************************************************************)
C30_MacNeverNoGateway ==
    os = "macos" =>
        /\ DiagTableBuilt =>
              /\ \A i \in DOMAIN DiagTable : DiagTable[i].Gateway # ""
              /\ Parse(DiagTable).nGatewayCount = Len(DiagTable)
              /\ ~DiagnosedAs("NoGateway")
        /\ (Done /\ call[1].diag /\ IsAmbiguous(hostOut)) => ~Returned(Err("NoGateway"))

\* a diagnosis on a table whose only record has `link#6` in the gateway column
C30_Witness ==
    /\ os = "macos"
    /\ Done /\ call[1].diag /\ IsAmbiguous(hostOut)
    /\ DiagTableBuilt
    /\ Len(DiagTable) = 1 /\ DiagTable[1].Gateway = "link#6"
    /\ Returned(Err("NoRoute"))

(***************************************************************************)
(* C21: after any sequence of write_lines calls on one path (lines without *)
(* "\n"), read_lines yields, in order, the lines of the most recent call   *)
(* with create = true followed by the lines of every later call with       *)
(* create = false.                                                         *)
(***************************************************************************)
\* the most recent call with create = true, the first call if there is none
C21_From ==
    LET creates == {k \in DOMAIN fsLog : fsLog[k].create}
    IN  IF creates = {} THEN 1 ELSE CHOOSE k \in creates : \A j \in creates : j <= k

RECURSIVE C21_LinesFrom(_)
C21_LinesFrom(k) ==
    IF k > Len(fsLog) THEN <<>> ELSE fsLog[k].lines \o C21_LinesFrom(k + 1)

C21_Kept == C21_LinesFrom(C21_From)

C21_EndsInCr(l) == Len(l) > 0 /\ SubSeq(l, Len(l), Len(l)) = "\r"

C22_Called == fsCall # <<>> /\ fsCall[1].op = "read_lines_batched"

C22_B == fsCall[1].batch_size

\* the lines of the file read
C22_Lines == BufReadLines(fsPrev[1][1])

C22_Ceil == (Len(C22_Lines) + C22_B - 1) \div C22_B

RECURSIVE C22_Concat(_)
C22_Concat(batches) ==
    IF batches = <<>> THEN <<>> ELSE Head(batches) \o C22_Concat(Tail(batches))

\* the k-th of the batches of B lines the file divides into
C22_Batch(k) ==
    SubSeq(C22_Lines, (k - 1) * C22_B + 1,
           IF k * C22_B < Len(C22_Lines) THEN k * C22_B ELSE Len(C22_Lines))

C22_AllBatches ==
    /\ Len(fsBatches) = C22_Ceil
    /\ C22_Concat(fsBatches) = C22_Lines
    /\ \A k \in DOMAIN fsBatches :
          /\ k < Len(fsBatches) => Len(fsBatches[k]) = C22_B
          /\ Len(fsBatches[k]) \in 1..C22_B
    /\ fsRet = <<[ok |-> TRUE, total |-> Len(C22_Lines)]>>

C22_BatchesOfFile ==
    (C22_Called /\ C22_B >= 1 /\ fsPrev[1] # <<>>) => C22_AllBatches

\* C22 as amended: as long as the callback returns Ok; a callback call that
\* returns an error is the last one, and the error is what is returned
C22_BatchesOfFileUnlessCallbackFails ==
    (C22_Called /\ C22_B >= 1 /\ fsPrev[1] # <<>>) =>
        IF fsCall[1].failAt \in 1..C22_Ceil
        THEN /\ Len(fsBatches) = fsCall[1].failAt
             /\ \A k \in DOMAIN fsBatches : fsBatches[k] = C22_Batch(k)
             /\ ~fsRet[1].ok
        ELSE C22_AllBatches

\* three lines in batches of two: a full batch and a last one of one line
C22_Witness ==
    /\ C22_Called
    /\ fsPrev[1] # <<>>
    /\ C22_B = 2
    /\ fsCall[1].failAt = 0
    /\ fsBatches = << <<"a", "">>, <<"x\ry">> >>
    /\ fsRet = <<[ok |-> TRUE, total |-> 3]>>

(***************************************************************************)
(* C23: write_lines_batched returns the number of items its iterator       *)
(* yielded and leaves the file with exactly the content write_lines gives  *)
(* for the same lines and create flag, for every batch_size, 0 and sizes   *)
(* beyond the number of lines included.                                    *)
(***************************************************************************)
C23_Called == fsCall # <<>> /\ fsCall[1].op = "write_lines_batched"

C23_SameAsWriteLines ==
    C23_Called =>
        /\ fsRet = <<[ok |-> TRUE, total |-> Len(fsCall[1].lines)]>>
        /\ fsFile = WriteLines(fsPrev[1], fsCall[1].lines, fsCall[1].create)

\* two lines appended with a batch size of three to a file that has content
C23_Witness ==
    /\ C23_Called
    /\ fsCall[1].batch_size = 3
    /\ fsCall[1].lines = <<"b\r", "c d">>
    /\ ~fsCall[1].create
    /\ fsPrev[1] = <<"x\ny">>
    /\ fsFile = <<"x\nyb\r\nc d\n">>

(***************************************************************************)
(* C24: Request::validate returns Ok exactly when the request has a header *)
(* whose sign is present, an empty or whitespace-only signature counting   *)
(* as present; otherwise it returns the error "sign data is required！";   *)
(* and it never changes the request.                                       *)
(***************************************************************************)
C24_Signed == Len(reqVal.head) = 1 /\ Len(reqVal.head[1].sign) = 1

C24_Validated ==
    reqRet # <<>> =>
        /\ reqRet[1].ok <=> C24_Signed
        /\ ~reqRet[1].ok => reqRet[1].msg = "sign data is required\\uff01"

C24_ValidateSign == [](C24_Validated) /\ [][reqVal' = reqVal]_vars

\* a header whose signature is the empty text
C24_Witness ==
    /\ reqRet # <<>>
    /\ reqVal.head # <<>>
    /\ reqVal.head[1].sign = <<"">>
    /\ reqRet[1].ok

(***************************************************************************)
(* C26: an atomic_call* invocation makes at most 3 borrow attempts and     *)
(* then terminates; the target method runs exactly once if an attempt      *)
(* succeeds, with no attempt after it, and not at all if all 3 fail, the   *)
(* result variable then keeping its value.                                 *)
(***************************************************************************)
C26_Counts ==
    \A t \in Threads :
        /\ acTries[t] <= 3
        /\ acCalls[t] <= 1
        /\ acPc[t] = "done" =>
              IF acCalls[t] = 1
              THEN acR[t] = "result"
              ELSE acTries[t] = 3 /\ acR[t] = "before"

\* once the method was entered the thread attempts no borrow again
C26_NoTryAfterSuccess ==
    \A t \in Threads : acCalls[t] >= 1 => acTries'[t] = acTries[t]

C26_Terminated == \A t \in Threads : acPc[t] = "done"

C26_ThreeTries ==
    [](C26_Counts) /\ [][C26_NoTryAfterSuccess]_vars /\ <>(C26_Terminated)

\* all invocations are over: one ran its method, one failed three times
C26_Witness ==
    /\ C26_Terminated
    /\ \E t \in Threads : acCalls[t] = 1 /\ acR[t] = "result"
    /\ \E t \in Threads : acCalls[t] = 0 /\ acTries[t] = 3 /\ acR[t] = "before"

(***************************************************************************)
(* C27: with several threads on one cell, at most one thread is inside a   *)
(* method reached through a mutable borrow, and none inside one reached    *)
(* through a shared borrow meanwhile; a thread that finds the cell         *)
(* borrowed does not wait but retries at once, so a call can complete      *)
(* without its method having run.                                          *)
(***************************************************************************)
C27_Inside(kind) == {t \in Threads : acPc[t] = "method" /\ acKind[t] = kind}

C27_Exclusion ==
    /\ Cardinality(C27_Inside("mut")) <= 1
    /\ C27_Inside("mut") # {} => C27_Inside("imt") = {}
    /\ \A t \in Threads : acPc[t] # "done" => ENABLED ThreadStep(t)

\* a call is over without its method having run while another thread is
\* inside its method
C27_Witness ==
    \E t, u \in Threads :
        /\ acPc[t] = "done" /\ acCalls[t] = 0
        /\ acPc[u] = "method" /\ acKind[u] = "mut"

(***************************************************************************)
(* C28: syncall_with_signal_timeout sets the exit flag to false before its *)
(* first attempt, so a signal raised before that is lost; it runs the      *)
(* action at least once; once the flag is raised after the reset at most   *)
(* one further attempt starts; the result variable holds the result of the *)
(* last attempt.                                                           *)
(***************************************************************************)
C28_SignalTimeout ==
    /\ syPc = "reset" => syTries = 0
    /\ (syPc # "reset" /\ syFlag) => sySignal = "after"
    /\ syPc = "exit" => syTries >= 1
    /\ sySince <= 1
    /\ syPc \in {"read", "sleep", "test", "exit"} /\ syTries >= 1 => syR.n = syTries
    /\ syPc = "action" /\ syTries >= 2 => syR.n = syTries - 1

\* a signal before the reset was lost, one raised later let one more
\* attempt start, whose failure is the result
C28_Witness ==
    /\ syPc = "exit"
    /\ sySignal = "after"
    /\ sySince = 1
    /\ syTries = 2
    /\ syR = [ok |-> FALSE, n |-> 2]
    /\ syElapsed <= syTimeout

(***************************************************************************)
(* C29: syncall_with_timeout repeats the action, with no delay between     *)
(* attempts, until the first attempt that returns Ok or until the timeout  *)
(* has elapsed; only that successful attempt assigns the result variable,  *)
(* nothing is attempted after it, and with no success the result variable  *)
(* keeps its value.                                                        *)
(***************************************************************************)
C29_Result ==
    /\ syPc # "sleep"
    /\ syR.n # 0 => (syR.ok /\ syR.n = syTries /\ syPc = "exit")
    /\ (syPc = "exit" /\ syR.n = 0) => syElapsed > syTimeout

\* no attempt starts once $t seconds have elapsed, and none after a success
C29_Start ==
    syTries' > syTries => (syElapsed < syTimeout /\ syR.n = 0)

C29_StartWithinSecond ==
    syTries' > syTries => (syElapsed <= syTimeout /\ syR.n = 0)

====
